---- MODULE Spec2Model ----
(***************************************************************************)
(* NumberSequencePredictor (src/NumberSequencePredictor.py).               *)
(*                                                                         *)
(* Python values are tagged pairs, so that the type tests of the source    *)
(* (type(obj) in [int, str], type(obj) == list) are tests on the tag:      *)
(*   PyInt(n)  = <<"int", n>>      PyStr(s) = <<"str", s>>                 *)
(*   PyList(l) = <<"list", l>>     None     = <<"NoneType", "None">>       *)
(*   Lambda(s) = <<"function", s>> (the lambdas of the bindings dict)      *)
(* An exception leaving a call is the value Raise(name).  Python indexes   *)
(* from 0 and TLA+ from 1: At(l, k) is l[k], From(l, k) is l[k:].          *)
(***************************************************************************)
EXTENDS Integers, Sequences, FiniteSets, TLC

VARIABLES self, sequence, expr, ex_sequence, result, exc, pc, call

vars == <<self, sequence, expr, ex_sequence, result, exc, pc, call>>

----------------------------------------------------------------------------
(* Bounds of the model. *)

\* largest max_depth of a predictor with a two-leaf vocabulary
MaxDepth == 2
\* largest max_depth of a predictor with a richer vocabulary
MaxDepthRich == 1
\* longest input sequence handed to predict_rest
MaxSeqLen == 3
\* deepest well-formed tree handed to the structural primitives
MaxTreeDepth == 2
\* deepest arbitrary object handed to _is_valid_expression
MaxObjDepth == 1
\* largest target depth handed to _prune
MaxPruneDepth == 2

\* the values the input sequences are made of
SeqValues == {1, 2}

----------------------------------------------------------------------------
(* Python values. *)

PyInt(n) == <<"int", n>>
PyStr(s) == <<"str", s>>
PyList(items) == <<"list", items>>
None == <<"NoneType", "None">>
Lambda(s) == <<"function", s>>
Raise(name) == <<"raise", name>>

Type(obj) == obj[1]
IsRaise(v) == v[1] = "raise"

\* l[k], k >= 0
At(l, k) == l[k + 1]
\* l[k:], k >= 0
From(l, k) == SubSeq(l, k + 1, Len(l))

SetMax(S) == CHOOSE m \in S : \A n \in S : n <= m

----------------------------------------------------------------------------
(* __init__ *)

\* the continuation length predict_rest asks of _generate_rest
RestLength == 5
\* the default max_depth
DefaultMaxDepth == 3

DefaultFunctionSymbols == {PyStr("+"), PyStr("-"), PyStr("*")}
DefaultConstantLeaves == {PyInt(n) : n \in -2 .. 2}
DefaultVariableLeaves == {PyStr("x"), PyStr("y"), PyStr("i")}

\* `a or b` on lists: an empty (or absent) argument takes the default
Or(a, b) == IF a = {} THEN b ELSE a

NewPredictor(function_symbols, constant_leaves, variable_leaves, max_depth) ==
    LET fs == Or(function_symbols, DefaultFunctionSymbols)
        cl == Or(constant_leaves, DefaultConstantLeaves)
        vl == Or(variable_leaves, DefaultVariableLeaves)
    IN  [function_symbols |-> fs,
         constant_leaves |-> cl,
         variable_leaves |-> vl,
         leaves |-> cl \cup vl,
         max_depth |-> max_depth]

----------------------------------------------------------------------------
(* _depth, _is_valid_expression, _random_expression *)

RECURSIVE Depth(_, _)
Depth(expression, recursion_depth) ==
    IF Type(expression) \in {"int", "str"}
    THEN recursion_depth
    ELSE SetMax({Depth(expression[2][k], recursion_depth + 1) :
                    k \in 1 .. Len(expression[2])})

RECURSIVE IsValidExpression(_, _, _)
IsValidExpression(me, obj, recursion_depth) ==
    IF Type(obj) \in {"int", "str"}
    THEN \/ obj \in me.leaves
         \/ (obj \in me.function_symbols /\ recursion_depth # 0)
         \/ Type(obj) = "int"
    ELSE IF Type(obj) = "list" /\ Len(obj[2]) = 3
    THEN IF Type(obj[2][1]) = "str" /\ obj[2][1] \in me.function_symbols
         THEN \A k \in 1 .. 3 : IsValidExpression(me, obj[2][k], recursion_depth + 1)
         ELSE FALSE
    ELSE FALSE

\* _random_expression with the depth test one level late
RECURSIVE RandomExpressionLate(_, _)
RandomExpressionLate(me, current_depth) ==
    IF current_depth = me.max_depth + 1
    THEN me.leaves
    ELSE me.leaves \cup
         {PyList(<<f, l, r>>) : f \in me.function_symbols,
                              l \in RandomExpressionLate(me, current_depth + 1),
                              r \in RandomExpressionLate(me, current_depth + 1)}

\* every value _random_expression(current_depth) can return: random.choice and
\* random.random() are the nondeterminism
RECURSIVE RandomExpression(_, _)
RandomExpression(me, current_depth) ==
    IF current_depth = me.max_depth
    THEN me.leaves
    ELSE me.leaves \cup
         {PyList(<<f, l, r>>) : f \in me.function_symbols,
                              l \in RandomExpression(me, current_depth + 1),
                              r \in RandomExpression(me, current_depth + 1)}

----------------------------------------------------------------------------
(* _prune, _count_nodes, _attach *)

\* _prune cutting one level below max_depth
RECURSIVE PruneLate(_, _, _, _)
PruneLate(me, expression, max_depth, current_depth) ==
    IF Type(expression) \in {"int", "str"} THEN {expression}
    ELSE IF current_depth = max_depth + 1 THEN me.leaves
    ELSE IF Type(expression) = "list" /\ Len(expression[2]) = 3
    THEN {PyList(<<expression[2][1], l, r>>) :
            l \in PruneLate(me, expression[2][2], max_depth, current_depth + 1),
            r \in PruneLate(me, expression[2][3], max_depth, current_depth + 1)}
    ELSE {None}

\* every value _prune can return: random.choice is the nondeterminism
RECURSIVE Prune(_, _, _, _)
Prune(me, expression, max_depth, current_depth) ==
    IF Type(expression) \in {"int", "str"} THEN {expression}
    ELSE IF current_depth = max_depth THEN me.leaves
    ELSE IF Type(expression) = "list" /\ Len(expression[2]) = 3
    THEN {PyList(<<expression[2][1], l, r>>) :
            l \in Prune(me, expression[2][2], max_depth, current_depth + 1),
            r \in Prune(me, expression[2][3], max_depth, current_depth + 1)}
    ELSE {None}

\* falls off the end (None) on any other shape
RECURSIVE CountNodes(_)
CountNodes(e) ==
    IF Type(e) \in {"int", "str"} THEN 1
    ELSE IF Type(e) = "list" /\ Len(e[2]) = 3
    THEN 1 + CountNodes(e[2][2]) + CountNodes(e[2][3])
    ELSE None

\* _attach taking the right child to start right after the left child's root
RECURSIVE AttachNoLeftCount(_, _, _, _)
AttachNoLeftCount(expression1, expression2, position, current_pos) ==
    IF position = current_pos THEN expression2
    ELSE IF Type(expression1) \in {"int", "str"} THEN expression1
    ELSE IF Type(expression1) = "list" /\ Len(expression1[2]) = 3
    THEN LET root == expression1[2][1]
             lp == current_pos + 1
             left == AttachNoLeftCount(expression1[2][2], expression2, position, lp)
             rp == lp + 1
             right == AttachNoLeftCount(expression1[2][3], expression2, position, rp)
         IN  PyList(<<root, left, right>>)
    ELSE None

RECURSIVE Attach(_, _, _, _)
Attach(expression1, expression2, position, current_pos) ==
    IF position = current_pos THEN expression2
    ELSE IF Type(expression1) \in {"int", "str"} THEN expression1
    ELSE IF Type(expression1) = "list" /\ Len(expression1[2]) = 3
    THEN LET root == expression1[2][1]
             lp == current_pos + 1
             left == Attach(expression1[2][2], expression2, position, lp)
             left_node_count == CountNodes(expression1[2][2])
             rp == lp + left_node_count
             right == Attach(expression1[2][3], expression2, position, rp)
         IN  PyList(<<root, left, right>>)
    ELSE None

----------------------------------------------------------------------------
(* _evaluate *)

\* bindings.get(key): None when the key is absent
Get(bindings, key) ==
    IF Type(key) = "str" /\ key[2] \in DOMAIN bindings
    THEN bindings[key[2]]
    ELSE None

\* operator(val_1, val_2): calling anything but a lambda, or arithmetic on
\* anything but two ints, raises TypeError
Call(operator, val_1, val_2) ==
    IF Type(operator) # "function" THEN Raise("TypeError")
    ELSE IF Type(val_1) # "int" \/ Type(val_2) # "int" THEN Raise("TypeError")
    ELSE IF operator[2] = "+" THEN PyInt(val_1[2] + val_2[2])
    ELSE IF operator[2] = "*" THEN PyInt(val_1[2] * val_2[2])
    ELSE PyInt(val_1[2] - val_2[2])

RECURSIVE Evaluate(_, _)
Evaluate(expression, bindings) ==
    IF Type(expression) = "int" THEN expression
    ELSE IF Type(expression) = "str" THEN Get(bindings, expression)
    ELSE LET operator == Get(bindings, expression[2][1])
             val_1 == Evaluate(expression[2][2], bindings)
             val_2 == Evaluate(expression[2][3], bindings)
         IN  IF IsRaise(val_1) THEN val_1
             ELSE IF IsRaise(val_2) THEN val_2
             ELSE Call(operator, val_1, val_2)

\* the bindings dict built at lines 133-136 and 159-162
Bindings(x, y, i) ==
    [k \in {"x", "y", "i", "+", "*", "-"} |->
        IF k = "x" THEN x
        ELSE IF k = "y" THEN y
        ELSE IF k = "i" THEN PyInt(i)
        ELSE Lambda(k)]

----------------------------------------------------------------------------
(* _generate_rest *)

\* the for loop of lines 130-137 with x and y taken the other way round
RECURSIVE RestLoopSwapped(_, _, _, _)
RestLoopSwapped(res, expression, i, stop) ==
    IF i >= stop THEN [result |-> res, exc |-> None]
    ELSE LET x == At(res, i - 1)
             y == At(res, i - 2)
             v == Evaluate(expression, Bindings(x, y, i))
         IN  IF IsRaise(v) THEN [result |-> res, exc |-> v]
             ELSE RestLoopSwapped(Append(res, v), expression, i + 1, stop)

\* the for loop of lines 130-137 from index i on: the list built, and the
\* exception of _evaluate that left the loop (None when none did)
RECURSIVE RestLoop(_, _, _, _)
RestLoop(res, expression, i, stop) ==
    IF i >= stop THEN [result |-> res, exc |-> None]
    ELSE LET x == At(res, i - 2)
             y == At(res, i - 1)
             v == Evaluate(expression, Bindings(x, y, i))
         IN  IF IsRaise(v) THEN [result |-> res, exc |-> v]
             ELSE RestLoop(Append(res, v), expression, i + 1, stop)

\* _generate_rest returning result instead of result[index:]
GenerateRestWhole(initial_sequence, expression, length) ==
    LET index == Len(initial_sequence)
        loop == RestLoop(initial_sequence, expression, index, index + length)
    IN  [initial_sequence |-> initial_sequence,
         returned |-> IF loop.exc = None THEN loop.result ELSE <<>>,
         exc |-> loop.exc]

\* returned: result[index:]; exc: the exception that left the call, if any;
\* initial_sequence: the caller's list after the call, which the copy
\* initial_sequence[::] of line 129 leaves alone
GenerateRest(initial_sequence, expression, length) ==
    LET index == Len(initial_sequence)
        loop == RestLoop(initial_sequence, expression, index, index + length)
    IN  [initial_sequence |-> initial_sequence,
         returned |-> IF loop.exc = None THEN From(loop.result, index) ELSE <<>>,
         exc |-> loop.exc]

----------------------------------------------------------------------------
(* predict_rest *)

\* lines 156-163: the replay of expr over every index of the sequence
Replay(seq, expression) ==
    [k \in 1 .. Len(seq) |->
        LET i == k - 1
            x == IF i > 1 THEN At(seq, i - 2) ELSE At(seq, 0)
            y == IF i > 0 THEN At(seq, i - 1) ELSE At(seq, 1)
        IN  Evaluate(expression, Bindings(x, y, i))]

\* the comparison of line 164 taken from index 3
MatchesFromThree(ex, seq) == From(ex, 3) = From(seq, 3)

\* the comparison of line 164 taken from index 1
MatchesFromOne(ex, seq) == From(ex, 1) = From(seq, 1)

\* line 164
Matches(ex, seq) == From(ex, 2) = From(seq, 2)

NoCall == [op |-> "none"]

\* the predictors of the model: the arguments of the constructor, with
\* vocabularies small enough to enumerate every candidate ("z" is a variable
\* and "/" an operator that no bindings dict holds; a product of x or y is
\* left out, whose extrapolation outgrows the model checker's integers)
SmallVocabularies ==
    { <<{PyStr("*")}, {PyInt(1)}, {PyStr("i")}>>,
      <<{PyStr("+")}, {PyInt(1)}, {PyStr("z")}>>,
      <<{PyStr("/")}, {PyInt(1)}, {PyStr("y")}>> }

RichVocabularies ==
    { <<{PyStr("+")}, {PyInt(1)}, {PyStr("x"), PyStr("y")}>>,
      <<{PyStr("+"), PyStr("-")}, {PyInt(2)}, {PyStr("x"), PyStr("y")}>>,
      <<{PyStr("+"), PyStr("*")}, {PyInt(-1), PyInt(2)}, {PyStr("i")}>> }

Predictors ==
    {NewPredictor(v[1], v[2], v[3], d) : v \in SmallVocabularies, d \in 0 .. MaxDepth}
    \cup
    {NewPredictor(v[1], v[2], v[3], d) : v \in RichVocabularies, d \in 0 .. MaxDepthRich}

InputSequences ==
    UNION {[1 .. n -> {PyInt(v) : v \in SeqValues}] : n \in 2 .. MaxSeqLen}

\* line 151; pc = "draw" is line 154, about to draw a candidate
Init ==
    /\ self \in Predictors
    /\ sequence \in InputSequences
    /\ expr = None
    /\ ex_sequence = <<>>
    /\ result = <<>>
    /\ exc = None
    /\ pc = "draw"
    /\ call = NoCall

\* line 154
Draw ==
    /\ pc = "draw"
    /\ expr' \in RandomExpression(self, 0)
    /\ pc' = "validate"
    /\ UNCHANGED <<self, sequence, ex_sequence, result, exc, call>>

\* line 155: an invalid candidate goes back to the head of the loop (line 153
\* empties ex_sequence; the rejected expr is dead there and is forgotten)
Validate ==
    /\ pc = "validate"
    /\ IF IsValidExpression(self, expr, 0)
       THEN pc' = "replay" /\ UNCHANGED <<expr, ex_sequence>>
       ELSE pc' = "draw" /\ expr' = None /\ ex_sequence' = <<>>
    /\ UNCHANGED <<self, sequence, result, exc, call>>

\* lines 156-163: ex_sequence grows until the loop ends or _evaluate raises,
\* and the exception leaves predict_rest
ReplayStep ==
    /\ pc = "replay"
    /\ LET ex == Replay(sequence, expr)
           bad == {k \in 1 .. Len(ex) : IsRaise(ex[k])}
           first == CHOOSE k \in bad : \A j \in bad : k <= j
       IN  IF bad = {}
           THEN ex_sequence' = ex /\ pc' = "compare" /\ exc' = exc
           ELSE ex_sequence' = SubSeq(ex, 1, first - 1) /\ pc' = "raised" /\ exc' = ex[first]
    /\ UNCHANGED <<self, sequence, expr, result, call>>

\* lines 164-165: break, or back to the head of the loop
Compare ==
    /\ pc = "compare"
    /\ IF Matches(ex_sequence, sequence)
       THEN pc' = "extrapolate" /\ UNCHANGED <<expr, ex_sequence>>
       ELSE pc' = "draw" /\ expr' = None /\ ex_sequence' = <<>>
    /\ UNCHANGED <<self, sequence, result, exc, call>>

\* line 166
Extrapolate ==
    /\ pc = "extrapolate"
    /\ LET r == GenerateRest(sequence, expr, RestLength)
       IN  /\ sequence' = r.initial_sequence
           /\ result' = r.returned
           /\ exc' = r.exc
           /\ pc' = IF r.exc = None THEN "done" ELSE "raised"
    /\ UNCHANGED <<self, expr, ex_sequence, call>>

Next == Draw \/ Validate \/ ReplayStep \/ Compare \/ Extrapolate

Spec == Init /\ [][Next]_vars

----------------------------------------------------------------------------
(* predict_rest with a vocabulary that cannot express the sequence:        *)
(* SpecSearch.  The predictor is NumberSequencePredictor(['*'], [1]), whose *)
(* variable leaves are the default x, y, i.  The loop of predict_rest is    *)
(* one thread that always takes its next step: weak fairness of each step   *)
(* of the loop.                                                             *)

Inexpressible == <<PyInt(1), PyInt(2), PyInt(3), PyInt(4)>>
Expressible == <<PyInt(1), PyInt(1), PyInt(1), PyInt(1)>>

InitSearch ==
    /\ self = NewPredictor({PyStr("*")}, {PyInt(1)}, {}, MaxDepth)
    /\ sequence \in {Inexpressible, Expressible}
    /\ expr = None
    /\ ex_sequence = <<>>
    /\ result = <<>>
    /\ exc = None
    /\ pc = "draw"
    /\ call = NoCall

SpecSearch ==
    /\ InitSearch
    /\ [][Next]_vars
    /\ WF_vars(Draw) /\ WF_vars(Validate) /\ WF_vars(ReplayStep) /\ WF_vars(Compare)

----------------------------------------------------------------------------
(* predict_rest([2, 4, 6, 8, 10]) with the default predictor: SpecDefault. *)
(*                                                                         *)
(* The default vocabulary builds some 4 * 10^10 candidates of depth <= 3,  *)
(* too many to draw one by one.  _evaluate is compositional: the value of  *)
(* [f, l, r] under given bindings is f applied to the values of l and r    *)
(* under the same bindings.  So a candidate is kept together with its      *)
(* values at the bindings the scenario evaluates it at, and below the root *)
(* one candidate is kept for each tuple of values: replacing a subtree by  *)
(* another with the same values changes no value of the tree.  The         *)
(* bindings are those of the replay at the compared indices 2..4 and those *)
(* of the extrapolation at indices 5..9 for as long as the values          *)
(* extrapolated so far are the expected ones (a first unexpected value is  *)
(* returned by the kept candidate as well).  The candidates whose values   *)
(* at indices 2..4 are the sequence's go through the steps of predict_rest *)
(* as trees; the others fail the comparison of line 164 and the loop is    *)
(* back at its head.                                                       *)

DefaultPredictor == NewPredictor({}, {}, {}, DefaultMaxDepth)

ScenarioA == <<PyInt(2), PyInt(4), PyInt(6), PyInt(8), PyInt(10)>>
ExpectedA == <<PyInt(12), PyInt(14), PyInt(16), PyInt(18), PyInt(20)>>

\* the indices a candidate is evaluated at, and the bindings there
Points == <<2, 3, 4, 5, 6, 7, 8, 9>>
ComparedPoints == {k \in DOMAIN Points : Points[k] < Len(ScenarioA)}
PointBindings(k) ==
    LET known == ScenarioA \o ExpectedA
        i == Points[k]
    IN  Bindings(At(known, i - 2), At(known, i - 1), i)

\* a leaf with its values (lines 117-120)
ValuedLeaf(leaf) ==
    [expression |-> leaf,
     values |-> [k \in DOMAIN Points |-> Evaluate(leaf, PointBindings(k))]]

\* [f, l, r] with its values (lines 122-124)
ValuedNode(f, l, r) ==
    [expression |-> PyList(<<f, l.expression, r.expression>>),
     values |-> [k \in DOMAIN Points |->
                    Call(Get(PointBindings(k), f), l.values[k], r.values[k])]]

OnePerValues(S) ==
    {CHOOSE c \in S : c.values = v : v \in {c.values : c \in S}}

\* _random_expression(current_depth), current_depth >= 1, one candidate for
\* each tuple of values
RECURSIVE ValuedExpression(_, _)
ValuedExpression(me, current_depth) ==
    IF current_depth = me.max_depth
    THEN {ValuedLeaf(leaf) : leaf \in me.leaves}
    ELSE LET below == ValuedExpression(me, current_depth + 1)
         IN  OnePerValues({ValuedLeaf(leaf) : leaf \in me.leaves} \cup
                          {ValuedNode(f, l, r) : f \in me.function_symbols,
                                                 l \in below, r \in below})

BelowRoot == ValuedExpression(DefaultPredictor, 1)

InitDefault ==
    /\ self = DefaultPredictor
    /\ sequence = ScenarioA
    /\ expr = None
    /\ ex_sequence = <<>>
    /\ result = <<>>
    /\ exc = None
    /\ pc = "draw"
    /\ call = NoCall

\* lines 153-154 with a leaf drawn at the root
DrawLeaf ==
    /\ pc = "draw"
    /\ expr' \in self.leaves
    /\ pc' = "validate"
    /\ UNCHANGED <<self, sequence, ex_sequence, result, exc, call>>

\* lines 153-154 with an operator drawn at the root, and lines 155-165 for a
\* candidate that the comparison rejects
DrawNode ==
    /\ pc = "draw"
    /\ \E f \in self.function_symbols, l \in BelowRoot, r \in BelowRoot :
          LET compared == [k \in ComparedPoints |->
                              Call(Get(PointBindings(k), f), l.values[k], r.values[k])]
          IN  IF \A k \in ComparedPoints : compared[k] = At(sequence, Points[k])
              THEN /\ expr' = PyList(<<f, l.expression, r.expression>>)
                   /\ pc' = "validate"
                   /\ UNCHANGED <<self, sequence, ex_sequence, result, exc, call>>
              ELSE UNCHANGED vars

NextDefault == DrawLeaf \/ DrawNode \/ Validate \/ ReplayStep \/ Compare \/ Extrapolate

SpecDefault == InitDefault /\ [][NextDefault]_vars
----------------------------------------------------------------------------
(* The structural primitives, called on their own: SpecEdit. *)

\* every expression of depth <= d over the predictor's vocabulary
WellFormed(me, d) == RandomExpression([me EXCEPT !.max_depth = d], 0)

\* a leaf, or one operator over two leaves
Replacements(me) ==
    me.leaves \cup
    {PyList(<<f, l, r>>) : f \in me.function_symbols, l \in me.leaves, r \in me.leaves}

\* ints and strings inside and outside the vocabulary
Atoms(me) ==
    me.leaves \cup me.function_symbols \cup {PyInt(7), PyStr("q")}

\* arbitrary objects: atoms, and lists of 0, 2 or 3 objects, nested d deep
RECURSIVE Objects(_, _)
Objects(me, d) ==
    IF d = 0 THEN Atoms(me)
    ELSE LET below == Objects(me, d - 1)
         IN  below \cup {PyList(<<>>)}
                   \cup {PyList(<<a, b>>) : a \in Atoms(me), b \in below}
                   \cup {PyList(<<a, b, c>>) : a \in Atoms(me) \cup {PyList(<<>>)},
                                               b \in below, c \in below}

EditPredictors ==
    { NewPredictor({PyStr("+")}, {PyInt(1)}, {PyStr("x")}, 0),
      NewPredictor({PyStr("*")}, {PyInt(2)}, {PyStr("i")}, 0) }

InitEdit ==
    /\ self \in EditPredictors
    /\ sequence = <<>>
    /\ expr = None
    /\ ex_sequence = <<>>
    /\ result = <<>>
    /\ exc = None
    /\ pc = "edit"
    /\ call = NoCall

CallPrune ==
    /\ call = NoCall
    /\ \E e \in WellFormed(self, MaxTreeDepth), d \in 0 .. MaxPruneDepth :
         \E r \in Prune(self, e, d, 0) :
            call' = [op |-> "_prune", expression |-> e, max_depth |-> d, out |-> r]
    /\ UNCHANGED <<self, sequence, expr, ex_sequence, result, exc, pc>>

CallAttach ==
    /\ call = NoCall
    /\ \E e1 \in WellFormed(self, MaxTreeDepth), e2 \in Replacements(self) :
         \E p \in -1 .. CountNodes(e1) + 1 :
            call' = [op |-> "_attach", expression1 |-> e1, expression2 |-> e2,
                     position |-> p, out |-> Attach(e1, e2, p, 0)]
    /\ UNCHANGED <<self, sequence, expr, ex_sequence, result, exc, pc>>

CallIsValidExpression ==
    /\ call = NoCall
    /\ \E o \in Objects(self, MaxObjDepth) :
            call' = [op |-> "_is_valid_expression", obj |-> o,
                     out |-> IsValidExpression(self, o, 0)]
    /\ UNCHANGED <<self, sequence, expr, ex_sequence, result, exc, pc>>

NextEdit == CallPrune \/ CallAttach \/ CallIsValidExpression

SpecEdit == InitEdit /\ [][NextEdit]_vars

----------------------------------------------------------------------------
(* Properties of predict_rest, under Spec. *)

\* the value of e at index i of the list l: x = l[i-2], y = l[i-1], i = i
ValueAt(e, l, i) == Evaluate(e, Bindings(At(l, i - 2), At(l, i - 1), i))

ReplaysInput(e, seq) == \A i \in 2 .. Len(seq) - 1 : ValueAt(e, seq, i) = At(seq, i)

\* C1: predict_rest leaves its search loop only with a candidate whose
\* recurrence replay equals sequence[i] at every index i >= 2; a candidate
\* that differs at some index >= 2 is discarded and the loop goes back to
\* drawing; no expression that fails the comparison reaches extrapolation.
C1_AcceptedReplaysInput ==
    /\ [](pc \in {"extrapolate", "done"} => ReplaysInput(expr, sequence))
    /\ [][(pc = "compare" /\ ~ReplaysInput(expr, sequence))
            => (pc' = "draw" /\ expr' # expr)]_vars

C1_Witness ==
    /\ pc = "extrapolate"
    /\ Len(sequence) = 3
    /\ Type(expr) = "list"

\* C2: for an input of length n >= 2 and an accepted expression, predict_rest
\* returns exactly 5 values; with full = sequence ++ returned, full[i] is the
\* expression at x = full[i-2], y = full[i-1], i = i for every i in n..n+4;
\* and the caller's sequence is never changed.
C2_ReturnsFiveNewValues ==
    /\ [](pc = "done" =>
            /\ Len(result) = 5
            /\ LET full == sequence \o result
                   n == Len(sequence)
               IN  \A i \in n .. n + 4 : At(full, i) = ValueAt(expr, full, i))
    /\ [][sequence' = sequence]_vars

C2_Witness ==
    /\ pc = "done"
    /\ Len(sequence) = 3
    /\ Type(expr) = "list"
    /\ result[5] # result[4]

\* C5: for an input of length 2 the comparison is empty: once a candidate has
\* passed validation no further candidate is drawn, the comparison accepts
\* it, and it is the expression handed to the extrapolation.
C5_LengthTwoAcceptsFirstValid ==
    [][(Len(sequence) = 2 /\ pc \in {"validate", "replay", "compare"}
            /\ IsValidExpression(self, expr, 0))
        => /\ pc' # "draw"
           /\ expr' = expr
           /\ (pc = "compare" => pc' = "extrapolate")]_vars

C5_Witness ==
    /\ pc = "done"
    /\ Len(sequence) = 2
    /\ Type(expr) = "list"
    /\ result # <<>>

\* C6: evaluating a symbol that the bindings do not hold fails explicitly: no
\* missing value (None) ever reaches the match comparison or the values that
\* predict_rest returns.
C6_NoMissingValue ==
    /\ \A k \in 1 .. Len(ex_sequence) : ex_sequence[k] # None
    /\ \A k \in 1 .. Len(result) : result[k] # None

\* C7: every expression the generator returns (called at depth 0) has depth
\* <= the configured maximum depth.
C7_GeneratedDepthBounded ==
    expr # None => Depth(expr, 0) <= self.max_depth

C7_Witness ==
    /\ pc = "validate"
    /\ self.max_depth = MaxDepth
    /\ Depth(expr, 0) = MaxDepth

----------------------------------------------------------------------------
(* Properties of the search, under SpecSearch. *)

\* C4: when the vocabulary and depth bound cannot express a recurrence that
\* matches the sequence, predict_rest terminates with an explicit
\* SearchExhausted failure after a bounded number of attempts.
C4_SearchExhaustedRaised ==
    (sequence = Inexpressible) => <>(pc = "raised" /\ exc = Raise("SearchExhausted"))

\* with the inexpressible sequence no candidate ever leaves the loop
SearchNeverLeavesLoop ==
    (sequence = Inexpressible) => pc \in {"draw", "validate", "replay", "compare"}


----------------------------------------------------------------------------
(* Properties of the default predictor, under SpecDefault. *)

\* C3: with the default configuration predict_rest([2, 4, 6, 8, 10]) returns
\* [12, 14, 16, 18, 20], whichever candidate the search accepts.
C3_ScenarioAReturnsExpected ==
    pc = "done" => result = ExpectedA

C3_Witness ==
    /\ pc = "done"
    /\ Depth(expr, 0) = DefaultMaxDepth
    /\ result = ExpectedA

\* the values kept with a candidate are the values _evaluate gives it
ValuesAreEvaluations ==
    pc = "draw" =>
        \A c \in BelowRoot : \A k \in DOMAIN Points :
            c.values[k] = Evaluate(c.expression, PointBindings(k))

\* the candidates kept below the root are expressions of _random_expression(1),
\* and every expression of _random_expression(1) has the values of a kept one
KeptValuesAreAllValues ==
    pc = "draw" =>
        /\ {c.expression : c \in BelowRoot} \subseteq RandomExpression(self, 1)
        /\ {[k \in DOMAIN Points |-> Evaluate(t, PointBindings(k))] :
                t \in RandomExpression(self, 1)}
             = {c.values : c \in BelowRoot}

\* the candidates that DrawNode lets through pass the comparison of line 164
DrawnNodesMatch ==
    (pc = "compare" /\ Type(expr) = "list") => Matches(ex_sequence, sequence)
----------------------------------------------------------------------------
(* Properties of the structural primitives, under SpecEdit. *)

IsLeaf(e) == Type(e) \in {"int", "str"}

\* the operator nodes of e at depth < d are operator nodes of r with the same
\* symbol
RECURSIVE KeepsOperators(_, _, _, _)
KeepsOperators(e, r, d, current_depth) ==
    IF IsLeaf(e) \/ current_depth >= d THEN TRUE
    ELSE /\ Type(r) = "list"
         /\ Len(r[2]) = 3
         /\ r[2][1] = e[2][1]
         /\ KeepsOperators(e[2][2], r[2][2], d, current_depth + 1)
         /\ KeepsOperators(e[2][3], r[2][3], d, current_depth + 1)

\* C8: prune(expr, d) returns an expression of depth <= d; a leaf is returned
\* unchanged; the operator nodes above depth d keep their operator symbol.
C8_PruneBoundsDepth ==
    call.op = "_prune" =>
        /\ ~IsLeaf(call.out) => Type(call.out) = "list"
        /\ Depth(call.out, 0) <= call.max_depth
        /\ IsLeaf(call.expression) => call.out = call.expression
        /\ KeepsOperators(call.expression, call.out, call.max_depth, 0)

C8_Witness ==
    /\ call.op = "_prune"
    /\ call.max_depth = 1
    /\ Depth(call.expression, 0) = 2
    /\ Depth(call.out, 0) = 1

\* the subtrees of e in preorder: root, then the left subtree's, then the
\* right subtree's
RECURSIVE Preorder(_)
Preorder(e) ==
    IF IsLeaf(e) THEN <<e>>
    ELSE <<e>> \o Preorder(e[2][2]) \o Preorder(e[2][3])

SubtreeAt(e, p) == Preorder(e)[p + 1]

\* C9: for a valid preorder position p, countNodes(substitute(e1, e2, p)) =
\* countNodes(e1) - countNodes(subtreeAt(e1, p)) + countNodes(e2), and the
\* subtree at p of the result is e2; for a position outside the valid range
\* the result is e1.
C9_AttachReplacesOneSubtree ==
    call.op = "_attach" =>
        LET e1 == call.expression1
            e2 == call.expression2
            p == call.position
        IN  IF 0 <= p /\ p < CountNodes(e1)
            THEN /\ CountNodes(call.out) =
                        CountNodes(e1) - CountNodes(SubtreeAt(e1, p)) + CountNodes(e2)
                 /\ SubtreeAt(call.out, p) = e2
            ELSE call.out = e1

C9_Witness ==
    /\ call.op = "_attach"
    /\ call.position = 4
    /\ CountNodes(call.expression1) = 7
    /\ CountNodes(call.expression2) = 3
    /\ CountNodes(call.out) = 7

\* the grammar: an int, a string of the leaf set, or a list of an operator
\* symbol and two expressions of the grammar
RECURSIVE InGrammar(_, _)
InGrammar(me, obj) ==
    IF Type(obj) = "int" THEN TRUE
    ELSE IF Type(obj) = "str" THEN obj \in me.leaves
    ELSE /\ Len(obj[2]) = 3
         /\ Type(obj[2][1]) = "str"
         /\ obj[2][1] \in me.function_symbols
         /\ InGrammar(me, obj[2][2])
         /\ InGrammar(me, obj[2][3])

\* C10: isValid(expr) is true exactly when expr is built from the grammar;
\* a tree with a bare operator symbol in a child position is not valid.
C10_ValidIffInGrammar ==
    call.op = "_is_valid_expression" => (call.out <=> InGrammar(self, call.obj))

====
